---- MODULE Spec2Model ----
(***************************************************************************)
(* Verification model of the kops reconcilers:                              *)
(*   - dns-controller/pkg/watchers/ingresscontroller.go: the ingress       *)
(*     list/watch loop (runWatcher / runOnce) and the record derivation    *)
(*     (updateIngressRecords, preferCNAMEs);                               *)
(*   - package awstasks: findELB and LoadBalancer.Find.                    *)
(* Spec and FairSpec run the watch loop, RecSpec one call of               *)
(* updateIngressRecords, LBSpec one run of LoadBalancer.Find.              *)
(***************************************************************************)
EXTENDS Integers, Sequences, FiniteSets, TLC

(***************************************************************************)
(* Bounds of the model.                                                    *)
(***************************************************************************)
\* capacity of the stream of watch events not yet received by the loop
MaxCh == 1
\* longest list of load-balancer ingress points of a derived ingress object
MaxPoints == 2
\* longest list of rules of a derived ingress object
MaxRules == 2
\* most load balancers the provider describes in answer to one query
MaxLBs == 2
\* most renderings of one Expected by the code-generation target
MaxRenderings == 2
\* most runs of one ElasticIP task
MaxRuns == 3

(***************************************************************************)
(* dns.Record and the record derivation of updateIngressRecords.           *)
(* Host names are sequences of characters, so that the dot suffix is       *)
(* computed; hostnames and IPs of ingress points are opaque strings, ""    *)
(* being Go's zero value.                                                  *)
(***************************************************************************)
RecordTypeCNAME == "CNAME"
RecordTypeA == "A"

\* dns.EnsureDotSuffix: append "." unless the name already ends with one
EnsureDotSuffix(s) ==
    IF Len(s) > 0 /\ s[Len(s)] = "." THEN s ELSE Append(s, ".")

\* the middle of preferCNAMEs: the records of one type, in order
RecordsOfType(records, t) == SelectSeq(records, LAMBDA r : r.RecordType = t)

\* preferCNAMEs without the preference: every record is kept
preferCNAMEs_KeepAll(records) == records

preferCNAMEs(records) ==
    LET cnames == RecordsOfType(records, RecordTypeCNAME)
        as == RecordsOfType(records, RecordTypeA)
    IN  IF Len(cnames) > 0 THEN cnames ELSE as

\* PointRecords with "else if" at line 167: no A record for a point that has
\* a hostname
PointRecords_ElseIf(p) ==
    IF p.Hostname # ""
    THEN <<[RecordType |-> RecordTypeCNAME, FQDN |-> <<>>, Value |-> p.Hostname]>>
    ELSE IF p.IP # ""
    THEN <<[RecordType |-> RecordTypeA, FQDN |-> <<>>, Value |-> p.IP]>>
    ELSE <<>>

\* lines 160-172: the records derived from one load-balancer ingress point
PointRecords(p) ==
    (IF p.Hostname # ""
        THEN <<[RecordType |-> RecordTypeCNAME, FQDN |-> <<>>, Value |-> p.Hostname]>>
        ELSE <<>>)
    \o
    (IF p.IP # ""
        THEN <<[RecordType |-> RecordTypeA, FQDN |-> <<>>, Value |-> p.IP]>>
        ELSE <<>>)

\* lines 157-173: the slice "ingresses"
RECURSIVE IngressPointRecords(_)
IngressPointRecords(points) ==
    IF points = <<>> THEN <<>>
    ELSE PointRecords(Head(points)) \o IngressPointRecords(Tail(points))

\* lines 181-186: one rule expanded against the slice "ingresses"
RuleRecords(host, ingresses) ==
    [i \in 1..Len(ingresses) |->
        [ingresses[i] EXCEPT !.FQDN = EnsureDotSuffix(host)]]

\* lines 175-187: the slice "records" before the CNAME preference
RECURSIVE ExpandRules(_, _)
ExpandRules(rules, ingresses) ==
    IF rules = <<>> THEN <<>>
    ELSE (IF Head(rules) = <<>> THEN <<>> ELSE RuleRecords(Head(rules), ingresses))
         \o ExpandRules(Tail(rules), ingresses)

DerivedRecords(ingress) ==
    ExpandRules(ingress.Rules, IngressPointRecords(ingress.Points))

\* the record set updateIngressRecords passes to scope.Replace(ingress.Name, _)
updateIngressRecords(ingress) == preferCNAMEs(DerivedRecords(ingress))


(***************************************************************************)
(* The ingress watch loop: IngressController.runWatcher.                   *)
(***************************************************************************)
VARIABLES
    pc,            \* position of runWatcher
    stopped,       \* the stop channel has been closed
    cluster,       \* the ingresses of the cluster: key -> shape, or "absent"
    listing,       \* ingressList.Items of the current pass
    idx,           \* index of the next item of the listing
    ch,            \* watcher.ResultChan(): the events since the listing
    chClosed,      \* the result channel has been closed
    scope,         \* the ingress scope: name -> records contributed
    ready,         \* the scope has been marked ready
    call,          \* the call the last step issued to the client or the scope
    passEnd,       \* how the last pass of runOnce ended
    slept,         \* the loop has slept since the last pass ended
    passListed,    \* the List call of the current pass succeeded
    passReady,     \* MarkReady has been called in the current pass
    passReplaced,  \* names replaced while enumerating the current listing
    lastEvent      \* the event the last step received, if any

watchVars == <<pc, stopped, cluster, listing, idx, ch, chClosed, scope, ready,
               call, passEnd, slept, passListed, passReady,
               passReplaced, lastEvent>>

\* One call of updateIngressRecords, on its own
VARIABLES
    recPc,         \* "call" before the call, "done" after it
    recIngress,    \* the ingress object passed to updateIngressRecords
    recRecords,    \* the slice "records" before preferCNAMEs
    recReplace     \* the arguments of the scope.Replace call it makes

recVars == <<recPc, recIngress, recRecords, recReplace>>

\* One run of LoadBalancer.Find
VARIABLES
    lbPc,          \* "find" before Find, "done" after it
    lbCloud,       \* the provider: its load balancers and how it answers
    lbE0,          \* the Expected LoadBalancer as configured, before Find
    lbE,           \* the Expected LoadBalancer (Find fills in unset fields)
    lbName,        \* the name Find passed to findELB
    lbActual,      \* the LoadBalancer Find returned, if any
    lbResult       \* "none", "nil" (nil, nil), "actual" or "error"

lbVars == <<lbPc, lbCloud, lbE0, lbE, lbName, lbActual, lbResult>>

\* One run of a LoadBalancer task after Find: CheckChanges, then the render
\* method of the target
VARIABLES
    rPc,           \* position of the run: "check", "render", "created", "tag",
                   \* "done", "failed" or "panicked"
    rTarget,       \* "aws" (the live target) or "terraform" (code generation)
    rA,            \* the Actual LoadBalancer; NoLB stands for a nil Actual
    rE0,           \* the Expected LoadBalancer as configured
    rE,            \* the Expected LoadBalancer passed to the methods
    rChanges,      \* the changeset passed to the methods
    rCalls,        \* the provider calls issued so far, in order
    rDocs,         \* the documents passed to RenderResource so far
    rErr           \* the error the run returned, if any

renderVars == <<rPc, rTarget, rA, rE0, rE, rChanges, rCalls, rDocs, rErr>>

\* Runs of an ElasticIP task against a provider
VARIABLES
    eipPc,         \* position of the current run
    eipRun,        \* number of the current run
    eipCloud,      \* the provider: allocated addresses and the subnet's tag
    eipE0,         \* the Expected ElasticIP as configured
    eipE,          \* the Expected ElasticIP of the current run
    eipA,          \* the Actual ElasticIP find returned; NoEIP stands for nil
    eipTagIP,      \* the public IP find read from the subnet's tag, if any
    eipChanges,    \* the changeset of the current run
    eipCalls,      \* the provider calls of the current run, in order
    eipErr         \* the error the current run returned, if any

eipVars == <<eipPc, eipRun, eipCloud, eipE0, eipE, eipA, eipTagIP, eipChanges,
             eipCalls, eipErr>>

taskVars == <<recVars, lbVars, renderVars, eipVars>>

\* Ingress objects of the cluster are identified by (namespace, name); the
\* list and watch calls are made on all namespaces: Ingresses("")
Keys == {<<"ns1", "a">>, <<"ns2", "a">>, <<"ns1", "b">>}
KeyOrder == <<<<"ns1", "a">>, <<"ns1", "b">>, <<"ns2", "a">>>>
Names == {k[2] : k \in Keys}

\* the status and spec an ingress of the cluster can have
ShapeIds == {"hostname", "ip"}
Shape(id) ==
    IF id = "hostname"
    THEN [Points |-> <<[Hostname |-> "lb.example.com", IP |-> ""]>>,
          Rules |-> << <<"f">> >>]
    ELSE [Points |-> <<[Hostname |-> "", IP |-> "1.2.3.4"]>>,
          Rules |-> << <<"f">> >>]

Ingress(k, id) ==
    [Namespace |-> k[1], Name |-> k[2],
     Points |-> Shape(id).Points, Rules |-> Shape(id).Rules]

\* the object of an event: an ingress, or the Status object of an Error event
NoKey == <<"", "">>
Event(t, k, id) == [Type |-> t, Key |-> k, Shape |-> id]
ErrorEvent == Event("ERROR", NoKey, "status")
IsIngress(ev) == ev.Shape # "status"

\* a call: its operation and arguments; a List call also records how the
\* pass before it ended and whether the loop has slept since
Call(op) ==
    [op |-> op, name |-> "", records |-> <<>>, after |-> "none", slept |-> FALSE]
NoCall == Call("none")
ReplaceCall(name, records) ==
    [Call("Replace") EXCEPT !.name = name, !.records = records]
ListCall(after, hasSlept) ==
    [Call("List") EXCEPT !.after = after, !.slept = hasSlept]

\* dns.Scope.Replace: substitute the records contributed under a name
Replace(sc, name, records) == [sc EXCEPT ![name] = records]

\* Ingresses("").List: the ingresses present, in the server's order
ListItems(cl) ==
    LET present == SelectSeq(KeyOrder, LAMBDA k : cl[k] # "absent")
    IN  [i \in 1..Len(present) |-> [Key |-> present[i], Shape |-> cl[present[i]]]]

ItemNames(items) == [i \in 1..Len(items) |-> items[i].Key[2]]

WatchInit ==
    /\ pc = "List"
    /\ stopped = FALSE
    /\ cluster \in [Keys -> ShapeIds \cup {"absent"}]
    /\ listing = <<>>
    /\ idx = 0
    /\ ch = <<>>
    /\ chClosed = FALSE
    /\ scope = [n \in Names |-> <<>>]
    /\ ready = FALSE
    /\ call = NoCall
    /\ passEnd = "none"
    /\ slept = FALSE
    /\ passListed = FALSE
    /\ passReady = FALSE
    /\ passReplaced = <<>>
    /\ lastEvent = Event("none", NoKey, "none")

----
\* The environment: the cluster changes, the watch stream, the stop signal.

\* A watch opened with the listing's resource version delivers every change
\* made since the listing, until the stream is closed.
Streaming == pc \in {"Items", "Watch", "Select"} /\ ~chClosed

Emit(ev) ==
    IF Streaming
    THEN Len(ch) < MaxCh /\ ch' = Append(ch, ev)
    ELSE ch' = ch

EnvFrame ==
    /\ UNCHANGED taskVars
    /\ call' = NoCall
    /\ lastEvent' = Event("none", NoKey, "none")
    /\ UNCHANGED <<pc, listing, idx, scope, ready, passEnd, slept,
                   passListed, passReady, passReplaced>>

IngressAdded ==
    \E k \in Keys, id \in ShapeIds :
        /\ cluster[k] = "absent"
        /\ cluster' = [cluster EXCEPT ![k] = id]
        /\ Emit(Event("ADDED", k, id))
        /\ EnvFrame
        /\ UNCHANGED <<stopped, chClosed>>

IngressModified ==
    \E k \in Keys, id \in ShapeIds :
        /\ cluster[k] \notin {"absent", id}
        /\ cluster' = [cluster EXCEPT ![k] = id]
        /\ Emit(Event("MODIFIED", k, id))
        /\ EnvFrame
        /\ UNCHANGED <<stopped, chClosed>>

IngressDeleted ==
    \E k \in Keys :
        /\ cluster[k] # "absent"
        /\ cluster' = [cluster EXCEPT ![k] = "absent"]
        /\ Emit(Event("DELETED", k, cluster[k]))
        /\ EnvFrame
        /\ UNCHANGED <<stopped, chClosed>>

\* the server reports a watch failure as an Error event carrying a Status
WatchErrorEvent ==
    /\ pc = "Select"
    /\ ~chClosed
    /\ Len(ch) < MaxCh
    /\ ch' = Append(ch, ErrorEvent)
    /\ EnvFrame
    /\ UNCHANGED <<stopped, cluster, chClosed>>

\* the server or the transport ends the watch: the result channel is closed
WatchClosed ==
    /\ pc = "Select"
    /\ ~chClosed
    /\ chClosed' = TRUE
    /\ EnvFrame
    /\ UNCHANGED <<stopped, cluster, ch>>

\* Stoppable.Stop: the stop channel is closed
Stop ==
    /\ ~stopped
    /\ stopped' = TRUE
    /\ EnvFrame
    /\ UNCHANGED <<cluster, ch, chClosed>>

----
\* runOnce and the loop of runWatcher, one action per step of the code.

NoEvent == Event("none", NoKey, "none")

\* line 72, err == nil: the listing is taken; the watch that follows starts
\* from its resource version
ListOK ==
    /\ UNCHANGED taskVars
    /\ pc = "List"
    /\ listing' = ListItems(cluster)
    /\ idx' = 1
    /\ ch' = <<>>
    /\ chClosed' = FALSE
    /\ pc' = "Items"
    /\ call' = ListCall(passEnd, slept)
    /\ passEnd' = "none"
    /\ slept' = FALSE
    /\ passListed' = TRUE
    /\ passReady' = FALSE
    /\ passReplaced' = <<>>
    /\ lastEvent' = NoEvent
    /\ UNCHANGED <<stopped, cluster, scope, ready>>

\* lines 72-75 and 123-131: List fails, runOnce returns (false, err) and the
\* loop goes to sleep
ListFail ==
    /\ UNCHANGED taskVars
    /\ pc = "List"
    /\ pc' = "Sleep"
    /\ call' = ListCall(passEnd, slept)
    /\ passEnd' = "listErr"
    /\ slept' = FALSE
    /\ passListed' = FALSE
    /\ passReady' = FALSE
    /\ passReplaced' = <<>>
    /\ lastEvent' = NoEvent
    /\ UNCHANGED <<stopped, cluster, listing, idx, ch, chClosed, scope, ready>>

\* lines 76-80: one item of the listing
ListItem ==
    /\ UNCHANGED taskVars
    /\ pc = "Items"
    /\ idx <= Len(listing)
    /\ LET ingress == Ingress(listing[idx].Key, listing[idx].Shape)
           records == updateIngressRecords(ingress)
       IN  /\ scope' = Replace(scope, ingress.Name, records)
           /\ call' = ReplaceCall(ingress.Name, records)
           /\ passReplaced' = Append(passReplaced, ingress.Name)
    /\ idx' = idx + 1
    /\ lastEvent' = NoEvent
    /\ UNCHANGED <<pc, stopped, cluster, listing, ch, chClosed, ready, passEnd,
                   slept, passListed, passReady>>

\* MarkReady moved before the enumeration of the listing
MarkReady_BeforeItems ==
    /\ UNCHANGED taskVars
    /\ pc = "Items"
    /\ ready' = TRUE
    /\ passReady' = TRUE
    /\ pc' = "Watch"
    /\ call' = Call("MarkReady")
    /\ lastEvent' = NoEvent
    /\ UNCHANGED <<stopped, cluster, listing, idx, ch, chClosed, scope, passEnd,
                   slept, passListed, passReplaced>>

\* line 81
MarkReady ==
    /\ UNCHANGED taskVars
    /\ pc = "Items"
    /\ idx > Len(listing)
    /\ ready' = TRUE
    /\ passReady' = TRUE
    /\ pc' = "Watch"
    /\ call' = Call("MarkReady")
    /\ lastEvent' = NoEvent
    /\ UNCHANGED <<stopped, cluster, listing, idx, ch, chClosed, scope, passEnd,
                   slept, passListed, passReplaced>>

\* lines 87-93, err == nil
WatchOK ==
    /\ UNCHANGED taskVars
    /\ pc = "Watch"
    /\ pc' = "Select"
    /\ call' = Call("Watch")
    /\ listing' = <<>>
    /\ idx' = 0
    /\ lastEvent' = NoEvent
    /\ UNCHANGED <<stopped, cluster, ch, chClosed, scope, ready, passEnd, slept,
                   passListed, passReady, passReplaced>>

\* WatchFail without the sleep of line 130
WatchFail_NoBackoff ==
    /\ UNCHANGED taskVars
    /\ pc = "Watch"
    /\ pc' = "List"
    /\ call' = Call("Watch")
    /\ listing' = <<>>
    /\ idx' = 0
    /\ ch' = <<>>
    /\ passEnd' = "watchErr"
    /\ slept' = FALSE
    /\ lastEvent' = NoEvent
    /\ UNCHANGED <<stopped, cluster, chClosed, scope, ready,
                   passListed, passReady, passReplaced>>

\* lines 89-92 and 123-131: Watch fails, runOnce returns (false, err)
WatchFail ==
    /\ UNCHANGED taskVars
    /\ pc = "Watch"
    /\ pc' = "Sleep"
    /\ call' = Call("Watch")
    /\ listing' = <<>>
    /\ idx' = 0
    /\ ch' = <<>>
    /\ passEnd' = "watchErr"
    /\ slept' = FALSE
    /\ lastEvent' = NoEvent
    /\ UNCHANGED <<stopped, cluster, chClosed, scope, ready,
                   passListed, passReady, passReplaced>>

\* lines 96-98 and 124-126: the stop case of the select; runWatcher returns
SelectStop ==
    /\ UNCHANGED taskVars
    /\ pc = "Select"
    /\ stopped
    /\ pc' = "Stopped"
    /\ passEnd' = "stop"
    /\ slept' = FALSE
    /\ call' = NoCall
    /\ lastEvent' = NoEvent
    /\ UNCHANGED <<stopped, cluster, listing, idx, ch, chClosed, scope, ready,
                   passListed, passReady, passReplaced>>

\* lines 99-103 and 123-131: the channel is closed, runOnce returns
\* (false, nil) and the loop calls runOnce again
SelectClosed ==
    /\ UNCHANGED taskVars
    /\ pc = "Select"
    /\ ch = <<>>
    /\ chClosed
    /\ pc' = "List"
    /\ passEnd' = "closed"
    /\ slept' = FALSE
    /\ call' = NoCall
    /\ lastEvent' = NoEvent
    /\ UNCHANGED <<stopped, cluster, listing, idx, ch, chClosed, scope, ready,
                   passListed, passReady, passReplaced>>

\* SelectEvent with the case of line 112 missing: Deleted falls to default
SelectEvent_NoDeleted ==
    /\ UNCHANGED taskVars
    /\ pc = "Select"
    /\ ch # <<>>
    /\ LET event == Head(ch)
           ingress == Ingress(event.Key, event.Shape)
       IN  /\ lastEvent' = event
           /\ IF ~IsIngress(event)
              THEN /\ pc' = "Panicked"
                   /\ call' = NoCall
                   /\ scope' = scope
              ELSE /\ pc' = pc
                   /\ IF event.Type \in {"ADDED", "MODIFIED"}
                      THEN /\ scope' = Replace(scope, ingress.Name,
                                               updateIngressRecords(ingress))
                           /\ call' = ReplaceCall(ingress.Name,
                                                  updateIngressRecords(ingress))
                      ELSE /\ scope' = scope
                           /\ call' = NoCall
    /\ ch' = Tail(ch)
    /\ UNCHANGED <<stopped, cluster, listing, idx, chClosed, ready, passEnd,
                   slept, passListed, passReady, passReplaced>>

\* lines 105-117: the event case of the select. The select takes this case
\* whenever an event is ready, also when the stop channel is closed.
\* line 105 asserts the object to be an ingress and panics otherwise.
SelectEvent ==
    /\ UNCHANGED taskVars
    /\ pc = "Select"
    /\ ch # <<>>
    /\ LET event == Head(ch)
           ingress == Ingress(event.Key, event.Shape)
       IN  /\ lastEvent' = event
           /\ IF ~IsIngress(event)
              THEN /\ pc' = "Panicked"
                   /\ call' = NoCall
                   /\ scope' = scope
              ELSE /\ pc' = pc
                   /\ IF event.Type \in {"ADDED", "MODIFIED"}
                      THEN /\ scope' = Replace(scope, ingress.Name,
                                               updateIngressRecords(ingress))
                           /\ call' = ReplaceCall(ingress.Name,
                                                  updateIngressRecords(ingress))
                      ELSE IF event.Type = "DELETED"
                      THEN /\ scope' = Replace(scope, ingress.Name, <<>>)
                           /\ call' = ReplaceCall(ingress.Name, <<>>)
                      ELSE /\ scope' = scope
                           /\ call' = NoCall
    /\ ch' = Tail(ch)
    /\ UNCHANGED <<stopped, cluster, listing, idx, chClosed, ready, passEnd,
                   slept, passListed, passReady, passReplaced>>

\* line 130: time.Sleep(10 * time.Second), then the next iteration
Sleep ==
    /\ UNCHANGED taskVars
    /\ pc = "Sleep"
    /\ pc' = "List"
    /\ slept' = TRUE
    /\ call' = Call("Sleep")
    /\ lastEvent' = NoEvent
    /\ UNCHANGED <<stopped, cluster, listing, idx, ch, chClosed, scope, ready,
                   passEnd, passListed, passReady, passReplaced>>

runOnce ==
    \/ ListOK \/ ListFail \/ ListItem \/ MarkReady \/ WatchOK \/ WatchFail
    \/ SelectStop \/ SelectClosed \/ SelectEvent

runWatcher == runOnce \/ Sleep

Environment ==
    \/ IngressAdded \/ IngressModified \/ IngressDeleted
    \/ WatchErrorEvent \/ WatchClosed \/ Stop

----
\* The state of the tasks while the watch loop runs, and of the watch loop
\* while a task runs.
\* a nil pointer, as opposed to a pointer to the empty string ""
Nil == "<nil>"

NoLB ==
    [Name |-> Nil, ID |-> Nil, DNSName |-> Nil, HostedZoneId |-> Nil,
     Subnets |-> <<>>, SecurityGroups |-> <<>>, Listeners |-> {}]

RecIdle ==
    /\ recPc = "idle"
    /\ recIngress = [Namespace |-> "", Name |-> "", Points |-> <<>>, Rules |-> <<>>]
    /\ recRecords = <<>>
    /\ recReplace = [name |-> "", records |-> <<>>]

LBIdle ==
    /\ lbPc = "idle"
    /\ lbCloud = [elbs |-> <<>>, answer |-> "ok"]
    /\ lbE0 = NoLB
    /\ lbE = NoLB
    /\ lbName = ""
    /\ lbActual = NoLB
    /\ lbResult = "none"

\* a nil error; an error is its kind and the field or message it carries
NoError == [kind |-> "", text |-> ""]

RenderIdle ==
    /\ rPc = "idle"
    /\ rTarget = "aws"
    /\ rA = NoLB
    /\ rE0 = NoLB
    /\ rE = NoLB
    /\ rChanges = NoLB
    /\ rCalls = <<>>
    /\ rDocs = <<>>
    /\ rErr = NoError

NoEIP ==
    [Name |-> Nil, ID |-> Nil, PublicIP |-> Nil, Subnet |-> [set |-> FALSE, ID |-> Nil]]

EIPIdle ==
    /\ eipPc = "idle"
    /\ eipRun = 0
    /\ eipCloud = [addresses |-> 0, tag |-> Nil]
    /\ eipE0 = NoEIP
    /\ eipE = NoEIP
    /\ eipA = NoEIP
    /\ eipTagIP = Nil
    /\ eipChanges = NoEIP
    /\ eipCalls = <<>>
    /\ eipErr = NoError

WatchIdle ==
    /\ pc = "Idle"
    /\ stopped = FALSE
    /\ cluster = [k \in Keys |-> "absent"]
    /\ listing = <<>>
    /\ idx = 0
    /\ ch = <<>>
    /\ chClosed = FALSE
    /\ scope = [n \in Names |-> <<>>]
    /\ ready = FALSE
    /\ call = NoCall
    /\ passEnd = "none"
    /\ slept = FALSE
    /\ passListed = FALSE
    /\ passReady = FALSE
    /\ passReplaced = <<>>
    /\ lastEvent = NoEvent

vars == <<watchVars, taskVars>>

(***************************************************************************)
(* Spec: the ingress controller running against a changing cluster.        *)
(***************************************************************************)
Init == WatchInit /\ RecIdle /\ LBIdle /\ RenderIdle /\ EIPIdle

Next == runWatcher \/ Environment

Spec == Init /\ [][Next]_vars

\* The goroutine of runWatcher keeps running, sleeps and calls return, and a
\* select whose stop case stays ready takes it eventually.
FairSpec == Spec /\ WF_vars(runWatcher) /\ WF_vars(SelectStop)

(***************************************************************************)
(* RecSpec: one call of updateIngressRecords on any ingress object with at *)
(* most MaxPoints load-balancer ingress points and MaxRules rules.         *)
(***************************************************************************)
SeqsUpTo(S, n) == UNION {[1..k -> S] : k \in 0..n}

\* v1.LoadBalancerIngress: Hostname and IP are both optional
PointKinds ==
    {[Hostname |-> h, IP |-> a] :
        h \in {"", "lb1.example.com", "lb2.example.com"}, a \in {"", "1.2.3.4"}}

\* the Host of a v1beta1.IngressRule; <<>> is the empty host
RuleHosts == {<<>>, <<"f">>, <<"f", ".">>, <<"g">>}

IngressInputs ==
    {[Namespace |-> "default", Name |-> "foo", Points |-> ps, Rules |-> rs] :
        ps \in SeqsUpTo(PointKinds, MaxPoints), rs \in SeqsUpTo(RuleHosts, MaxRules)}

RecInit ==
    /\ recPc = "call"
    /\ recIngress \in IngressInputs
    /\ recRecords = <<>>
    /\ recReplace = [name |-> "", records |-> <<>>]
    /\ WatchIdle
    /\ LBIdle
    /\ RenderIdle
    /\ EIPIdle

\* lines 154-191: the whole call, ending with scope.Replace
UpdateIngressRecordsCall ==
    /\ recPc = "call"
    /\ recRecords' = DerivedRecords(recIngress)
    /\ recReplace' = [name |-> recIngress.Name,
                      records |-> updateIngressRecords(recIngress)]
    /\ recPc' = "done"
    /\ UNCHANGED <<recIngress, watchVars, lbVars, renderVars, eipVars>>

RecNext == UpdateIngressRecordsCall

RecSpec == RecInit /\ [][RecNext]_vars

(***************************************************************************)
(* LBSpec: one run of LoadBalancer.Find against a provider.                *)
(***************************************************************************)
\* fi.StringValue / aws.StringValue: "" for a nil pointer
StringValue(p) == IF p = Nil THEN "" ELSE p

\* strconv.FormatInt(port, 10) for the ports of the model
FormatInt(n) ==
    CASE n = 80 -> "80"
      [] n = 443 -> "443"
      [] n = 8443 -> "8443"

SubnetIDs == {"subnet-a", "subnet-b"}
SecurityGroupIDs == {"sg-a", "sg-b"}

\* the sequences without repetition over a set of IDs
IDSeqs(S) ==
    {q \in SeqsUpTo(S, Cardinality(S)) :
        \A i, j \in 1..Len(q) : q[i] = q[j] => i = j}

\* a Subnet or SecurityGroup task as Expected references it, by ID
TaskRef(id) == [ID |-> id, Name |-> "task-" \o id]
\* &Subnet{ID: subnet}, &SecurityGroup{ID: sg}
BareRef(id) == [ID |-> id, Name |-> Nil]

TaskRefs(ids) == [i \in 1..Len(ids) |-> TaskRef(ids[i])]
BareRefs(ids) == [i \in 1..Len(ids) |-> BareRef(ids[i])]
RefIDs(refs) == [i \in 1..Len(refs) |-> refs[i].ID]

\* elb.LoadBalancerDescription
Description(name, subnets, groups) ==
    [LoadBalancerName |-> name,
     DNSName |-> "dns-" \o name,
     CanonicalHostedZoneNameID |-> "zone-" \o name,
     Subnets |-> subnets,
     SecurityGroups |-> groups,
     ListenerDescriptions |-> <<[LoadBalancerPort |-> 443, InstancePort |-> 8443]>>]

LBNames == {"api", "api-elb"}

\* The provider: the load balancers its pages describe, and how it answers.
\*   "ok"                     the pages, no error
\*   "LoadBalancerNotFound"   that awserr code when it has no load balancer
\*                            of the name asked for, else as "ok"
\*   "OtherAWSError"          an awserr.Error with another code
\*   "error"                  an error that is no awserr.Error
Answers == {"ok", "LoadBalancerNotFound", "OtherAWSError", "error"}

Clouds ==
    {[elbs |-> [i \in 1..Len(names) |-> Description(names[i], subnets, groups)],
      answer |-> a] :
        names \in SeqsUpTo(LBNames, MaxLBs),
        subnets \in IDSeqs(SubnetIDs),
        groups \in IDSeqs(SecurityGroupIDs),
        a \in Answers}

ExpectedLBs ==
    {[Name |-> n, ID |-> id, DNSName |-> d, HostedZoneId |-> z,
      Subnets |-> TaskRefs(subnets), SecurityGroups |-> TaskRefs(groups),
      Listeners |-> {[LoadBalancerPort |-> "443", InstancePort |-> 8443]}] :
        n \in {Nil, "api"},
        id \in {Nil, "", "api-elb"},
        d \in {Nil, "dns-configured"},
        z \in {Nil, "zone-configured"},
        subnets \in IDSeqs(SubnetIDs),
        groups \in IDSeqs(SecurityGroupIDs)}

\* DescribeLoadBalancersPages: the descriptions passed to the callback and
\* the error returned
DescribeLoadBalancersPages(cloud, name) ==
    LET exists == \E i \in 1..Len(cloud.elbs) : cloud.elbs[i].LoadBalancerName = name
    IN  [pages |-> IF cloud.answer = "LoadBalancerNotFound" /\ ~exists
                   THEN <<>> ELSE cloud.elbs,
         err |-> IF cloud.answer = "ok" \/ (cloud.answer = "LoadBalancerNotFound" /\ exists)
                 THEN "" ELSE cloud.answer]

\* findELB: [res |-> "nil" | "lb" | "error", lb |-> the description found]
NoDescription == Description("", <<>>, <<>>)

\* findELB without the translation of lines 96-100: the not-found error code
\* is returned as an error
findELB_NotFoundIsError(cloud, name) ==
    LET response == DescribeLoadBalancersPages(cloud, name)
        found == SelectSeq(response.pages, LAMBDA lb : lb.LoadBalancerName = name)
    IN  IF response.err # ""
        THEN [res |-> "error", lb |-> NoDescription]
        ELSE IF Len(found) = 0
        THEN [res |-> "nil", lb |-> NoDescription]
        ELSE IF Len(found) # 1
        THEN [res |-> "error", lb |-> NoDescription]
        ELSE [res |-> "lb", lb |-> found[1]]

findELB(cloud, name) ==
    LET response == DescribeLoadBalancersPages(cloud, name)
        found == SelectSeq(response.pages, LAMBDA lb : lb.LoadBalancerName = name)
    IN  IF response.err # ""
        THEN IF response.err = "LoadBalancerNotFound"
             THEN [res |-> "nil", lb |-> NoDescription]
             ELSE [res |-> "error", lb |-> NoDescription]
        ELSE IF Len(found) = 0
        THEN [res |-> "nil", lb |-> NoDescription]
        ELSE IF Len(found) # 1
        THEN [res |-> "error", lb |-> NoDescription]
        ELSE [res |-> "lb", lb |-> found[1]]

\* subnetSlicesEqualIgnoreOrder: the same IDs, whatever the order
subnetSlicesEqualIgnoreOrder(l, r) ==
    /\ Len(l) = Len(r)
    /\ {l[i].ID : i \in 1..Len(l)} = {r[i].ID : i \in 1..Len(r)}

\* lines 119-122
ElbName(e) ==
    IF StringValue(e.ID) = "" THEN StringValue(e.Name) ELSE StringValue(e.ID)

\* lines 132-154: actual as read from the description
ActualFrom(e, lb) ==
    [Name |-> e.Name,
     ID |-> lb.LoadBalancerName,
     DNSName |-> lb.DNSName,
     HostedZoneId |-> lb.CanonicalHostedZoneNameID,
     Subnets |-> BareRefs(lb.Subnets),
     SecurityGroups |-> BareRefs(lb.SecurityGroups),
     Listeners |-> {[LoadBalancerPort |-> FormatInt(ld.LoadBalancerPort),
                     InstancePort |-> ld.InstancePort] :
                        ld \in {lb.ListenerDescriptions[i] :
                                    i \in 1..Len(lb.ListenerDescriptions)}}]

\* lines 156-159
AvoidSpuriousMismatches(actual, e) ==
    IF subnetSlicesEqualIgnoreOrder(actual.Subnets, e.Subnets)
    THEN [actual EXCEPT !.Subnets = e.Subnets]
    ELSE actual

\* lines 160-168 without the tests for nil: Actual's values overwrite
\* Expected's
FillFromActual_Overwrite(e, actual) ==
    [e EXCEPT !.DNSName = actual.DNSName,
              !.HostedZoneId = actual.HostedZoneId,
              !.ID = actual.ID]

\* lines 160-168
FillFromActual(e, actual) ==
    [e EXCEPT !.DNSName = IF e.DNSName = Nil THEN actual.DNSName ELSE e.DNSName,
              !.HostedZoneId = IF e.HostedZoneId = Nil THEN actual.HostedZoneId
                               ELSE e.HostedZoneId,
              !.ID = IF e.ID = Nil THEN actual.ID ELSE e.ID]

LBInit ==
    /\ lbPc = "find"
    /\ lbCloud \in Clouds
    /\ lbE0 \in ExpectedLBs
    /\ lbE = lbE0
    /\ lbName = ""
    /\ lbActual = NoLB
    /\ lbResult = "none"
    /\ WatchIdle
    /\ RecIdle
    /\ RenderIdle
    /\ EIPIdle

\* LoadBalancer.Find
Find ==
    /\ lbPc = "find"
    /\ LET elbName == ElbName(lbE)
           got == findELB(lbCloud, elbName)
           actual == AvoidSpuriousMismatches(ActualFrom(lbE, got.lb), lbE)
       IN  /\ lbName' = elbName
           /\ IF got.res = "error"
              THEN lbResult' = "error" /\ lbActual' = NoLB /\ lbE' = lbE
              ELSE IF got.res = "nil"
              THEN lbResult' = "nil" /\ lbActual' = NoLB /\ lbE' = lbE
              ELSE /\ lbResult' = "actual"
                   /\ lbActual' = actual
                   /\ lbE' = FillFromActual(lbE, actual)
    /\ lbPc' = "done"
    /\ UNCHANGED <<lbCloud, lbE0, watchVars, recVars, renderVars, eipVars>>

LBNext == Find

LBSpec == LBInit /\ [][LBNext]_vars

(***************************************************************************)
(* RenderSpec: one run of a LoadBalancer task from CheckChanges on, on the *)
(* live target (RenderAWS) or the code-generation target (RenderTerraform).*)
(* The provider may fail any call; the range over the Listeners map visits *)
(* its keys in any order.                                                  *)
(***************************************************************************)
RequiredField(f) == [kind |-> "RequiredField", text |-> f]
CannotChangeField(f) == [kind |-> "CannotChangeField", text |-> f]
Errorf(text) == [kind |-> "error", text |-> text]

\* strconv.ParseInt(s, 10, 64) for the keys of the model
ParseInt(s) ==
    CASE s = "80" -> [err |-> FALSE, n |-> 80]
      [] s = "443" -> [err |-> FALSE, n |-> 443]
      [] OTHER -> [err |-> TRUE, n |-> 0]

\* the entries a Listeners map is made of: key (the load-balancer port) and
\* the listener's InstancePort; "http" is a key that is not a number
ListenerEntries ==
    {[LoadBalancerPort |-> "80", InstancePort |-> 8080],
     [LoadBalancerPort |-> "443", InstancePort |-> 8443],
     [LoadBalancerPort |-> "http", InstancePort |-> 8080]}

\* mapToAWS with the two ports exchanged
mapToAWS_PortsSwapped(listener, loadBalancerPort) ==
    [InstancePort |-> loadBalancerPort, InstanceProtocol |-> "TCP",
     LoadBalancerPort |-> listener.InstancePort, Protocol |-> "TCP"]

\* LoadBalancerListener.mapToAWS
mapToAWS(listener, loadBalancerPort) ==
    [InstancePort |-> listener.InstancePort, InstanceProtocol |-> "TCP",
     LoadBalancerPort |-> loadBalancerPort, Protocol |-> "TCP"]

\* the orders in which a range over a map may visit its entries
RangeOrders(m) ==
    {q \in [1..Cardinality(m) -> m] : \A i, j \in 1..Cardinality(m) : q[i] = q[j] => i = j}

\* the loops over e.Listeners: the error of the first key that does not
\* parse, or the listeners in the order the keys were visited
BadPort(order) == \E i \in 1..Len(order) : ParseInt(order[i].LoadBalancerPort).err
AWSListeners(order) ==
    [i \in 1..Len(order) |->
        mapToAWS(order[i], ParseInt(order[i].LoadBalancerPort).n)]

\* LoadBalancer.CheckChanges, with the order of two checks exchanged
CheckChanges_SubnetsFirst(a, e, changes) ==
    IF a = NoLB
    THEN IF StringValue(e.Name) = "" THEN RequiredField("Name")
         ELSE IF Len(e.Subnets) = 0 THEN RequiredField("Subnets")
         ELSE IF Len(e.SecurityGroups) = 0 THEN RequiredField("SecurityGroups")
         ELSE NoError
    ELSE NoError

\* LoadBalancer.CheckChanges
CheckChanges(a, e, changes) ==
    IF a = NoLB
    THEN IF StringValue(e.Name) = "" THEN RequiredField("Name")
         ELSE IF Len(e.SecurityGroups) = 0 THEN RequiredField("SecurityGroups")
         ELSE IF Len(e.Subnets) = 0 THEN RequiredField("Subnets")
         ELSE NoError
    ELSE NoError

\* the Expected LoadBalancers of a run, as configured
RenderExpected ==
    {[Name |-> n, ID |-> id, DNSName |-> Nil, HostedZoneId |-> Nil,
      Subnets |-> TaskRefs(subnets), SecurityGroups |-> TaskRefs(groups),
      Listeners |-> ls] :
        n \in {Nil, "", "api"}, id \in {Nil, "api-elb"},
        subnets \in IDSeqs(SubnetIDs), groups \in IDSeqs(SecurityGroupIDs),
        ls \in SUBSET ListenerEntries}

\* the load balancer an update finds at the provider
FoundLB == Description("api-elb", <<"subnet-a">>, <<"sg-a">>)

\* the changesets of an update: each of Subnets, SecurityGroups and
\* Listeners is nil (here empty) or Expected's value
UpdateChanges(e) ==
    {[NoLB EXCEPT !.Subnets = s, !.SecurityGroups = g, !.Listeners = l] :
        s \in {<<>>, e.Subnets}, g \in {<<>>, e.SecurityGroups},
        l \in {{}, e.Listeners}}

\* A run is a create (Find returned nil: the changeset is all of Expected) or
\* an update (Find returned the Actual and filled in Expected's unset fields)
RenderInit ==
    /\ rPc = "check"
    /\ rTarget \in {"aws", "terraform"}
    /\ rE0 \in RenderExpected
    /\ \/ /\ rA = NoLB
          /\ rE = rE0
          /\ rChanges = rE0
       \/ /\ rA = ActualFrom(rE0, FoundLB)
          /\ rE = FillFromActual(rE0, rA)
          /\ rChanges \in UpdateChanges(rE0)
    /\ rCalls = <<>>
    /\ rDocs = <<>>
    /\ rErr = NoError
    /\ WatchIdle
    /\ RecIdle
    /\ LBIdle
    /\ EIPIdle

RenderFrame == UNCHANGED <<rTarget, rE0, watchVars, recVars, lbVars, eipVars>>

\* the run validates the changeset and stops at an error
CheckChangesStep ==
    /\ rPc = "check"
    /\ rErr' = CheckChanges(rA, rE, rChanges)
    /\ rPc' = IF rErr' = NoError THEN "render" ELSE "failed"
    /\ UNCHANGED <<rA, rE, rChanges, rCalls, rDocs>>
    /\ RenderFrame

\* a call to the provider: its operation, its arguments and how it ended
ELBCall(op, name, result) ==
    [op |-> op, name |-> name, subnets |-> <<>>, groups |-> <<>>,
     listeners |-> <<>>, tags |-> <<>>, result |-> result]

\* Cloud.BuildTags(e.Name): the standard tags of the cluster
ClusterName == "cluster.example.com"
BuildTags(name) ==
    << <<"KubernetesCluster", ClusterName>>, <<"Name", StringValue(name)>> >>

\* what the provider holds when the lookup of line 296 asks for the load
\* balancer just created: it may not show it yet, and may fail the call
LookupClouds(name, subnets, groups) ==
    {[elbs |-> es, answer |-> a] :
        es \in {<<>>, <<Description(name, subnets, groups)>>}, a \in Answers}

RenderFail(err) ==
    /\ rPc' = "failed"
    /\ rErr' = err

\* RenderAWS, lines 254-293: the create branch up to the create call
RenderAWSCreate ==
    /\ rPc = "render"
    /\ rTarget = "aws"
    /\ rA = NoLB
    /\ LET elbName == IF rE.ID = Nil THEN rE.Name ELSE rE.ID
       IN  IF elbName = Nil
           THEN RenderFail(RequiredField("ID")) /\ UNCHANGED <<rE, rCalls>>
           ELSE \E order \in RangeOrders(rE.Listeners) :
                  IF BadPort(order)
                  THEN /\ RenderFail(Errorf("error parsing load balancer listener port"))
                       /\ UNCHANGED <<rE, rCalls>>
                  ELSE IF rE.ID = Nil
                  THEN \* line 286 evaluates *e.ID
                       /\ rPc' = "panicked"
                       /\ UNCHANGED <<rE, rCalls, rErr>>
                  ELSE \E ok \in BOOLEAN :
                         /\ rCalls' = Append(rCalls,
                               [ELBCall("CreateLoadBalancer", elbName,
                                        IF ok THEN "ok" ELSE "error")
                                  EXCEPT !.subnets = RefIDs(rE.Subnets),
                                         !.groups = RefIDs(rE.SecurityGroups),
                                         !.listeners = AWSListeners(order)])
                         /\ IF ok
                            THEN /\ rE' = [rE EXCEPT !.DNSName = "dns-" \o elbName,
                                                     !.ID = elbName]
                                 /\ rPc' = "created"
                                 /\ UNCHANGED rErr
                            ELSE /\ RenderFail(Errorf("error creating ELB"))
                                 /\ UNCHANGED rE
    /\ UNCHANGED <<rA, rChanges, rDocs>>
    /\ RenderFrame

\* RenderAWS with the result of the lookup of line 296 ignored
RenderAWSLookup_IgnoreMissing ==
    /\ rPc = "created"
    /\ \E cloud \in LookupClouds(rE.ID, RefIDs(rE.Subnets), RefIDs(rE.SecurityGroups)) :
         LET got == findELB(cloud, rE.ID)
         IN  /\ rCalls' = Append(rCalls, ELBCall("DescribeLoadBalancers", rE.ID, got.res))
             /\ rE' = [rE EXCEPT !.HostedZoneId = got.lb.CanonicalHostedZoneNameID]
             /\ rPc' = "tag"
             /\ UNCHANGED rErr
    /\ UNCHANGED <<rA, rChanges, rDocs>>
    /\ RenderFrame

\* RenderAWS, lines 296-305: the lookup of the load balancer just created
RenderAWSLookup ==
    /\ rPc = "created"
    /\ \E cloud \in LookupClouds(rE.ID, RefIDs(rE.Subnets), RefIDs(rE.SecurityGroups)) :
         LET got == findELB(cloud, rE.ID)
         IN  /\ rCalls' = Append(rCalls, ELBCall("DescribeLoadBalancers", rE.ID, got.res))
             /\ IF got.res = "error"
                THEN RenderFail(Errorf("error listing ELBs")) /\ UNCHANGED rE
                ELSE IF got.res = "nil"
                THEN RenderFail(Errorf("Unable to find newly created ELB")) /\ UNCHANGED rE
                ELSE /\ rE' = [rE EXCEPT !.HostedZoneId = got.lb.CanonicalHostedZoneNameID]
                     /\ rPc' = "tag"
                     /\ UNCHANGED rErr
    /\ UNCHANGED <<rA, rChanges, rDocs>>
    /\ RenderFrame

\* RenderAWS, lines 254-261 and 306-331: the update branch
RenderAWSUpdate ==
    /\ rPc = "render"
    /\ rTarget = "aws"
    /\ rA # NoLB
    /\ LET elbName == IF rE.ID = Nil THEN rE.Name ELSE rE.ID
       IN  IF elbName = Nil
           THEN RenderFail(RequiredField("ID")) /\ UNCHANGED rCalls
           ELSE IF rChanges.Subnets # <<>>
           THEN /\ RenderFail(Errorf("subnet changes on LoadBalancer not yet implemented"))
                /\ UNCHANGED rCalls
           ELSE IF rChanges.Listeners = {}
           THEN /\ rPc' = "tag"
                /\ UNCHANGED <<rCalls, rErr>>
           ELSE \E order \in RangeOrders(rChanges.Listeners) :
                  IF BadPort(order)
                  THEN /\ RenderFail(Errorf("error parsing load balancer listener port"))
                       /\ UNCHANGED rCalls
                  ELSE \E ok \in BOOLEAN :
                         /\ rCalls' = Append(rCalls,
                               [ELBCall("CreateLoadBalancerListeners", elbName,
                                        IF ok THEN "ok" ELSE "error")
                                  EXCEPT !.listeners = AWSListeners(order)])
                         /\ IF ok
                            THEN rPc' = "tag" /\ UNCHANGED rErr
                            ELSE RenderFail(Errorf("error creating LoadBalancerListeners"))
    /\ UNCHANGED <<rA, rE, rChanges, rDocs>>
    /\ RenderFrame

\* RenderAWS, line 333: the tag call, whose error is the method's result
RenderAWSTag ==
    /\ rPc = "tag"
    /\ \E ok \in BOOLEAN :
         /\ rCalls' = Append(rCalls,
               [ELBCall("AddELBTags", rE.ID, IF ok THEN "ok" ELSE "error")
                  EXCEPT !.tags = BuildTags(rE.Name)])
         /\ IF ok
            THEN rPc' = "done" /\ UNCHANGED rErr
            ELSE RenderFail(Errorf("error adding tags"))
    /\ UNCHANGED <<rA, rE, rChanges, rDocs>>
    /\ RenderFrame

\* Subnet.TerraformLink / SecurityGroup.TerraformLink: a literal naming the
\* "id" property of the resource of that task
TerraformLink(kind, task) == <<kind, task.Name, "id">>

\* the terraformELB of lines 218-244, its listeners in the order visited
TerraformELB(e, order) ==
    [name |-> e.Name,
     subnets |-> [i \in 1..Len(e.Subnets) |-> TerraformLink("aws_subnet", e.Subnets[i])],
     security_groups |-> [i \in 1..Len(e.SecurityGroups) |->
                            TerraformLink("aws_security_group", e.SecurityGroups[i])],
     listener |-> [i \in 1..Len(order) |->
                    LET l == AWSListeners(order)[i]
                    IN  [lb_port |-> l.LoadBalancerPort, lb_protocol |-> l.Protocol,
                         instance_port |-> l.InstancePort,
                         instance_protocol |-> l.InstanceProtocol]]]

\* RenderTerraform: the whole method. The target renders the same Expected
\* up to MaxRenderings times.
RenderTerraform ==
    /\ rTarget = "terraform"
    /\ \/ rPc = "render"
       \/ rPc = "done" /\ Len(rDocs) < MaxRenderings
    /\ IF rE.Name = Nil
       THEN \* line 219 evaluates *e.Name
            /\ rPc' = "panicked"
            /\ UNCHANGED <<rDocs, rErr>>
       ELSE \E order \in RangeOrders(rE.Listeners) :
              IF BadPort(order)
              THEN /\ RenderFail(Errorf("error parsing load balancer listener port"))
                   /\ UNCHANGED rDocs
              ELSE /\ rDocs' = Append(rDocs,
                         [resourceType |-> "aws_elb", resourceName |-> rE.Name,
                          e |-> TerraformELB(rE, order)])
                   /\ rPc' = "done"
                   /\ UNCHANGED rErr
    /\ UNCHANGED <<rA, rE, rChanges, rCalls>>
    /\ RenderFrame

RenderAWS == RenderAWSCreate \/ RenderAWSLookup \/ RenderAWSUpdate \/ RenderAWSTag

RenderNext == CheckChangesStep \/ RenderAWS \/ RenderTerraform

RenderSpec == RenderInit /\ [][RenderNext]_vars

(***************************************************************************)
(* EIPSpec: up to MaxRuns runs of one ElasticIP task on the live target.   *)
(* Each run builds Expected from the configuration, then calls find,       *)
(* CheckChanges and RenderAWS. The provider may fail any call.             *)
(***************************************************************************)
\* the addresses the provider hands out, in order: AllocationId and PublicIp
AllocationIds == <<"eipalloc-1", "eipalloc-2", "eipalloc-3", "eipalloc-4">>
PublicIps == <<"192.0.2.1", "192.0.2.2", "192.0.2.3", "192.0.2.4">>
Address(i) == [AllocationId |-> AllocationIds[i], PublicIp |-> PublicIps[i]]

\* Expected's Subnet: no Subnet at all, one the provider has not created
\* yet (no ID), or one with an ID
NoSubnet == [set |-> FALSE, ID |-> Nil]
EIPSubnets == {NoSubnet, [set |-> TRUE, ID |-> Nil], [set |-> TRUE, ID |-> "subnet-a"]}

ExpectedEIPs ==
    {[Name |-> "eip", ID |-> Nil, PublicIP |-> ip, Subnet |-> sn] :
        ip \in {Nil, PublicIps[1]}, sn \in EIPSubnets}

EIPCall(op, result) == [op |-> op, result |-> result]

EIPInit ==
    /\ eipPc = "find"
    /\ eipRun = 1
    /\ eipCloud = [addresses |-> 0, tag |-> Nil]
    /\ eipE0 \in ExpectedEIPs
    /\ eipE = eipE0
    /\ eipA = NoEIP
    /\ eipTagIP = Nil
    /\ eipChanges = NoEIP
    /\ eipCalls = <<>>
    /\ eipErr = NoError
    /\ WatchIdle
    /\ RecIdle
    /\ LBIdle
    /\ RenderIdle

EIPFrame == UNCHANGED <<eipRun, eipE0, watchVars, recVars, lbVars, renderVars>>

EIPFail(err) ==
    /\ eipPc' = "failed"
    /\ eipErr' = err

\* ElasticIP.find, lines 403-428: the lookup through the tag of the subnet
findByTag ==
    /\ eipPc = "find"
    /\ IF eipE.ID = Nil /\ eipE.PublicIP = Nil
       THEN IF ~eipE.Subnet.set
            THEN \* line 407 evaluates e.Subnet.ID
                 /\ eipPc' = "panicked"
                 /\ UNCHANGED <<eipTagIP, eipCalls, eipErr>>
            ELSE IF eipE.Subnet.ID = Nil
            THEN \* lines 430 and 465: nothing to look up
                 /\ eipPc' = "check"
                 /\ UNCHANGED <<eipTagIP, eipCalls, eipErr>>
            ELSE \E ok \in BOOLEAN :
                   /\ eipCalls' = Append(eipCalls,
                         EIPCall("DescribeTags", IF ok THEN "ok" ELSE "error"))
                   /\ IF ~ok
                      THEN EIPFail(Errorf("error listing tags")) /\ UNCHANGED eipTagIP
                      ELSE IF eipCloud.tag = Nil
                      THEN /\ eipPc' = "check"
                           /\ UNCHANGED <<eipTagIP, eipErr>>
                      ELSE /\ eipTagIP' = eipCloud.tag
                           /\ eipPc' = "describe"
                           /\ UNCHANGED eipErr
       ELSE /\ eipPc' = "describe"
            /\ UNCHANGED <<eipTagIP, eipCalls, eipErr>>
    /\ UNCHANGED <<eipCloud, eipE, eipA, eipChanges>>
    /\ EIPFrame

\* ElasticIP.find, lines 430-463: the lookup of the address
findAddress ==
    /\ eipPc = "describe"
    /\ LET publicIP == IF eipTagIP # Nil THEN eipTagIP ELSE eipE.PublicIP
           found == {i \in 1..eipCloud.addresses :
                        IF eipE.ID # Nil
                        THEN Address(i).AllocationId = eipE.ID
                        ELSE Address(i).PublicIp = publicIP}
       IN  \E ok \in BOOLEAN :
             /\ eipCalls' = Append(eipCalls,
                   EIPCall("DescribeAddresses", IF ok THEN "ok" ELSE "error"))
             /\ IF ~ok
                THEN EIPFail(Errorf("error listing ElasticIPs")) /\ UNCHANGED <<eipE, eipA>>
                ELSE IF found = {}
                THEN /\ eipPc' = "check"
                     /\ UNCHANGED <<eipE, eipA, eipErr>>
                ELSE LET a == Address(CHOOSE i \in found : TRUE)
                     IN  /\ eipA' = [Name |-> Nil, ID |-> a.AllocationId,
                                     PublicIP |-> a.PublicIp, Subnet |-> eipE.Subnet]
                         /\ eipE' = [eipE EXCEPT !.ID = a.AllocationId]
                         /\ eipPc' = "check"
                         /\ UNCHANGED eipErr
    /\ UNCHANGED <<eipCloud, eipTagIP, eipChanges>>
    /\ EIPFrame

\* ElasticIP.CheckChanges, with the order of two checks exchanged
ElasticIPCheckChanges_IDFirst(a, e, changes) ==
    IF a # NoEIP
    THEN IF changes.PublicIP # Nil THEN CannotChangeField("PublicIP")
         ELSE IF changes.ID # Nil THEN CannotChangeField("ID")
         ELSE IF changes.Subnet.set THEN CannotChangeField("Subnet")
         ELSE NoError
    ELSE NoError

\* ElasticIP.CheckChanges
ElasticIPCheckChanges(a, e, changes) ==
    IF a # NoEIP
    THEN IF changes.PublicIP # Nil THEN CannotChangeField("PublicIP")
         ELSE IF changes.Subnet.set THEN CannotChangeField("Subnet")
         ELSE IF changes.ID # Nil THEN CannotChangeField("ID")
         ELSE NoError
    ELSE NoError

\* the changesets of a run: all of Expected on create; on update each of
\* PublicIP, Subnet and ID is nil or a changed value
EIPChangesets(a, e) ==
    IF a = NoEIP
    THEN {e}
    ELSE {[Name |-> Nil, ID |-> id, PublicIP |-> ip, Subnet |-> sn] :
            id \in {Nil, AllocationIds[2]}, ip \in {Nil, PublicIps[2]},
            sn \in {NoSubnet, [set |-> TRUE, ID |-> "subnet-b"]}}

\* the run validates the changeset and stops at an error
ElasticIPCheckChangesStep ==
    /\ eipPc = "check"
    /\ eipChanges' \in EIPChangesets(eipA, eipE)
    /\ eipErr' = ElasticIPCheckChanges(eipA, eipE, eipChanges')
    /\ eipPc' = IF eipErr' = NoError THEN "render" ELSE "failed"
    /\ UNCHANGED <<eipCloud, eipE, eipA, eipTagIP, eipCalls>>
    /\ EIPFrame

\* ElasticIP.RenderAWS, lines 506-527: with no Actual an address is
\* allocated; then the Subnet is examined
ElasticIPRenderAWSAllocate ==
    /\ eipPc = "render"
    /\ eipA = NoEIP
    /\ \E ok \in BOOLEAN :
         /\ eipCalls' = Append(eipCalls,
               EIPCall("AllocateAddress", IF ok THEN "ok" ELSE "error"))
         /\ IF ~ok
            THEN /\ EIPFail(Errorf("error creating ElasticIP"))
                 /\ UNCHANGED <<eipCloud, eipE>>
            ELSE LET a == Address(eipCloud.addresses + 1)
                 IN  /\ eipCloud' = [eipCloud EXCEPT !.addresses = @ + 1]
                     /\ eipE' = [eipE EXCEPT !.ID = a.AllocationId,
                                             !.PublicIP = a.PublicIp]
                     /\ IF ~eipE.Subnet.set
                        THEN EIPFail(Errorf("Subnet not set"))
                        ELSE IF eipE.Subnet.ID = Nil
                        THEN EIPFail(Errorf("Subnet ID not set"))
                        ELSE eipPc' = "tag" /\ UNCHANGED eipErr
    /\ UNCHANGED <<eipA, eipTagIP, eipChanges>>
    /\ EIPFrame

\* ElasticIP.RenderAWS, lines 518-540: the address is Actual's or the one
\* just allocated; the subnet is tagged with it
ElasticIPRenderAWSTag ==
    /\ \/ eipPc = "tag"
       \/ eipPc = "render" /\ eipA # NoEIP
    /\ LET publicIp == IF eipA = NoEIP THEN eipE.PublicIP ELSE eipA.PublicIP
       IN  IF ~eipE.Subnet.set
           THEN EIPFail(Errorf("Subnet not set")) /\ UNCHANGED <<eipCloud, eipCalls>>
           ELSE IF eipE.Subnet.ID = Nil
           THEN EIPFail(Errorf("Subnet ID not set")) /\ UNCHANGED <<eipCloud, eipCalls>>
           ELSE \E ok \in BOOLEAN :
                  /\ eipCalls' = Append(eipCalls,
                        EIPCall("AddAWSTags", IF ok THEN "ok" ELSE "error"))
                  /\ IF ok
                     THEN /\ eipCloud' = [eipCloud EXCEPT !.tag = publicIp]
                          /\ eipPc' = "done"
                          /\ UNCHANGED eipErr
                     ELSE /\ EIPFail(Errorf("Unable to tag subnet"))
                          /\ UNCHANGED eipCloud
    /\ UNCHANGED <<eipE, eipA, eipTagIP, eipChanges>>
    /\ EIPFrame

\* the task is run again: Expected is built from the configuration anew
ElasticIPRun ==
    /\ eipPc \in {"done", "failed"}
    /\ eipRun < MaxRuns
    /\ eipRun' = eipRun + 1
    /\ eipPc' = "find"
    /\ eipE' = eipE0
    /\ eipA' = NoEIP
    /\ eipTagIP' = Nil
    /\ eipChanges' = NoEIP
    /\ eipCalls' = <<>>
    /\ eipErr' = NoError
    /\ UNCHANGED <<eipCloud, eipE0, watchVars, recVars, lbVars, renderVars>>

EIPNext ==
    \/ findByTag
    \/ findAddress
    \/ ElasticIPCheckChangesStep
    \/ ElasticIPRenderAWSAllocate
    \/ ElasticIPRenderAWSTag
    \/ ElasticIPRun

EIPSpec == EIPInit /\ [][EIPNext]_vars

(***************************************************************************)
(* Properties of the watch loop.                                           *)
(***************************************************************************)
ProviderCalls == {"List", "Watch", "Replace", "MarkReady"}

\* C1 as stated: every List call that follows a pass ended by a closed watch
\* channel or by a failed List or Watch call is preceded by the backoff sleep.
C1_BackoffBeforeEveryRetry ==
    (call.op = "List" /\ call.after \in {"closed", "listErr", "watchErr"})
        => call.slept

\* C1 amended: a List call that follows a failed List or Watch call is
\* preceded by the backoff sleep; a List call that follows a closed watch
\* channel is issued at once, without it.
C1_BackoffAfterFailedCall ==
    /\ (call.op = "List" /\ call.after \in {"listErr", "watchErr"}) => call.slept
    /\ (call.op = "List" /\ call.after = "closed") => ~call.slept

C1_Witness ==
    call.op = "List" /\ call.after = "watchErr" /\ call.slept /\ ready

\* C2: once the stop signal is raised, no step of the loop issues a List,
\* Watch, Replace or MarkReady call.
C2_NoCallAfterStop ==
    [][stopped => call'.op \notin ProviderCalls]_vars

\* C3: after the stop signal runWatcher eventually returns, and it returns
\* only after a stop signal. (The loop ending by the panic of line 105 is
\* counted as ended here, so that a violation shows a loop that runs on.)
C3_StopLeadsToReturn ==
    /\ stopped ~> (pc \in {"Stopped", "Panicked"})
    /\ [](pc = "Stopped" => stopped)

\* C4: MarkReady is called only after the List call of the pass succeeded and
\* Replace was called once for each item of the listing, in order; Watch is
\* called only after MarkReady; after a failed List call the pass makes no
\* Replace, MarkReady or Watch call.
C4_ReadyAfterFullListing ==
    /\ call.op = "MarkReady" =>
           passListed /\ passReplaced = ItemNames(listing)
    /\ call.op = "Watch" => passReady
    /\ call.op \in {"Replace", "MarkReady", "Watch"} => passListed
    /\ pc = "Sleep" /\ passEnd = "listErr" =>
           ~passListed /\ ~passReady /\ passReplaced = <<>>

C4_Witness ==
    call.op = "MarkReady" /\ Len(listing) = 3 /\ passReplaced = <<"a", "b", "a">>

\* C5: at every MarkReady, each name with a non-empty contribution in the
\* scope is the name of an ingress of the listing of that pass.
C5_NoStaleContribution ==
    call.op = "MarkReady" =>
        \A n \in Names :
            scope[n] # <<>> => \E i \in 1..Len(listing) : listing[i].Key[2] = n

C7_OfType(records, t) == SelectSeq(records, LAMBDA r : r.RecordType = t)

\* C7: the record set passed to Replace holds no A record when it holds a
\* CNAME record: it is the derived CNAME records if some ingress point has a
\* hostname, and the derived A records otherwise.
C7_CNAMEsPreferred ==
    recPc = "done" =>
        LET rs == recReplace.records
            points == recIngress.Points
        IN  /\ recReplace.name = recIngress.Name
            /\ (\E i \in 1..Len(rs) : rs[i].RecordType = "CNAME")
                   => \A i \in 1..Len(rs) : rs[i].RecordType # "A"
            /\ rs = IF \E j \in 1..Len(points) : points[j].Hostname # ""
                    THEN C7_OfType(recRecords, "CNAME")
                    ELSE C7_OfType(recRecords, "A")

C7_Witness ==
    /\ recPc = "done"
    /\ C7_OfType(recRecords, "A") # <<>>
    /\ C7_OfType(recRecords, "CNAME") # <<>>
    /\ recReplace.records = C7_OfType(recRecords, "CNAME")

C8_WithDot(host) ==
    IF host[Len(host)] = "." THEN host ELSE host \o <<".">>

C8_NamedRules(rules) == SelectSeq(rules, LAMBDA h : h # <<>>)

\* C8 as stated: before the preference there is exactly one record per
\* (rule with a host, ingress point) pair: a CNAME with the hostname if the
\* point has one, else an A record with the IP; its FQDN is the rule's host
\* with a trailing dot. (Points with neither a hostname nor an IP, for which
\* the claim names no record, are left out of the pairs.)
C8_OneRecordPerPair ==
    recPc = "done" =>
        LET hosts == C8_NamedRules(recIngress.Rules)
            points == SelectSeq(recIngress.Points,
                                LAMBDA p : p.Hostname # "" \/ p.IP # "")
            n == Len(points)
        IN  /\ Len(recRecords) = Len(hosts) * n
            /\ \A i \in 1..Len(hosts), j \in 1..n :
                   recRecords[(i - 1) * n + j] =
                       IF points[j].Hostname # ""
                       THEN [RecordType |-> "CNAME", FQDN |-> C8_WithDot(hosts[i]),
                             Value |-> points[j].Hostname]
                       ELSE [RecordType |-> "A", FQDN |-> C8_WithDot(hosts[i]),
                             Value |-> points[j].IP]

\* what one ingress point yields for a rule: a CNAME if it has a hostname,
\* then an A record if it has an IP
C8_OfPoint(fqdn, p) ==
    (IF p.Hostname = "" THEN <<>>
     ELSE <<[RecordType |-> "CNAME", FQDN |-> fqdn, Value |-> p.Hostname]>>)
    \o (IF p.IP = "" THEN <<>>
        ELSE <<[RecordType |-> "A", FQDN |-> fqdn, Value |-> p.IP]>>)

RECURSIVE C8_OfPoints(_, _)
C8_OfPoints(fqdn, points) ==
    IF points = <<>> THEN <<>>
    ELSE C8_OfPoint(fqdn, Head(points)) \o C8_OfPoints(fqdn, Tail(points))

RECURSIVE C8_OfRules(_, _)
C8_OfRules(hosts, points) ==
    IF hosts = <<>> THEN <<>>
    ELSE C8_OfPoints(C8_WithDot(Head(hosts)), points) \o C8_OfRules(Tail(hosts), points)

\* C8 amended: before the preference the records are, for each rule with a
\* non-empty host in order and each ingress point in order, a CNAME with the
\* hostname if the point has a hostname, followed by an A record with the IP
\* if the point has an IP (two records for a point with both, none for a
\* point with neither), each with the rule's host, dot-suffixed, as FQDN.
C8_RecordsPerPair ==
    recPc = "done" =>
        recRecords = C8_OfRules(C8_NamedRules(recIngress.Rules), recIngress.Points)

C8_Witness ==
    /\ recPc = "done"
    /\ Len(C8_NamedRules(recIngress.Rules)) = 2
    /\ \E j \in 1..Len(recIngress.Points) :
           recIngress.Points[j].Hostname # "" /\ recIngress.Points[j].IP # ""
    /\ \E j \in 1..Len(recIngress.Points) :
           recIngress.Points[j].Hostname = "" /\ recIngress.Points[j].IP # ""
    /\ Len(recRecords) = 6

(***************************************************************************)
(* Properties of LoadBalancer.Find.                                        *)
(***************************************************************************)
\* the name the claims expect Find to look up: Expected.ID if set (a
\* non-empty string), else Expected.Name
C9_LookedUp ==
    IF lbE0.ID \notin {Nil, ""} THEN lbE0.ID
    ELSE IF lbE0.Name = Nil THEN "" ELSE lbE0.Name

\* the provider's load balancers of that name
C9_Matches ==
    {i \in 1..Len(lbCloud.elbs) : lbCloud.elbs[i].LoadBalancerName = C9_LookedUp}

C9_QueryFailed == lbCloud.answer \in {"OtherAWSError", "error"}

\* C9: Find looks up Expected.ID if set, else Expected.Name; it returns
\* (nil, nil) when the provider has no load balancer of that name, be the
\* answer an empty result or the LoadBalancerNotFound code; it returns an
\* error exactly when the query fails otherwise or several load balancers
\* match; otherwise it returns the single match.
C9_FindContract ==
    lbPc = "done" =>
        /\ lbName = C9_LookedUp
        /\ lbResult = "nil" <=> (~C9_QueryFailed /\ C9_Matches = {})
        /\ lbResult = "error" <=> (C9_QueryFailed \/ Cardinality(C9_Matches) > 1)
        /\ lbResult = "actual" <=> (~C9_QueryFailed /\ Cardinality(C9_Matches) = 1)
        /\ lbResult = "actual" =>
               \E i \in C9_Matches :
                   /\ lbActual.ID = lbCloud.elbs[i].LoadBalancerName
                   /\ lbActual.DNSName = lbCloud.elbs[i].DNSName
                   /\ lbActual.HostedZoneId = lbCloud.elbs[i].CanonicalHostedZoneNameID

C9_Witness ==
    /\ lbPc = "done"
    /\ lbCloud.answer = "LoadBalancerNotFound"
    /\ lbCloud.elbs # <<>>
    /\ C9_Matches = {}
    /\ lbE0.ID = Nil
    /\ lbName = "api"
    /\ lbResult = "nil"

C10_IsPermutation(a, b) ==
    /\ Len(a) = Len(b)
    /\ \E f \in [1..Len(a) -> 1..Len(a)] :
           /\ \A i, j \in 1..Len(a) : f[i] = f[j] => i = j
           /\ \A i \in 1..Len(a) : a[i] = b[f[i]]

C10_IDs(refs) == [i \in 1..Len(refs) |-> refs[i].ID]

\* C10: when Find returns an Actual and the Subnets (the SecurityGroups) read
\* from the provider are a permutation of Expected's, Actual's and Expected's
\* Subnets (SecurityGroups) are in the same order after Find.
C10_PermutationKeepsOrder ==
    (lbPc = "done" /\ lbResult = "actual") =>
        \A i \in C9_Matches :
            /\ C10_IsPermutation(lbCloud.elbs[i].Subnets, C10_IDs(lbE0.Subnets))
                   => C10_IDs(lbActual.Subnets) = C10_IDs(lbE.Subnets)
            /\ C10_IsPermutation(lbCloud.elbs[i].SecurityGroups,
                                 C10_IDs(lbE0.SecurityGroups))
                   => C10_IDs(lbActual.SecurityGroups) = C10_IDs(lbE.SecurityGroups)

C16_Filled == {"DNSName", "HostedZoneId", "ID"}

\* C16: when Find returns an Actual, each of Expected's DNSName, HostedZoneId
\* and ID that was unset equals Actual's afterwards, each one that was set
\* keeps its value, and no other field of Expected changes; when Find returns
\* nil or an error, Expected is unchanged.
C16_FindFillsUnsetOnly ==
    lbPc = "done" =>
        IF lbResult = "actual"
        THEN /\ \A f \in C16_Filled :
                    lbE[f] = IF lbE0[f] = Nil THEN lbActual[f] ELSE lbE0[f]
             /\ \A f \in DOMAIN lbE0 \ C16_Filled : lbE[f] = lbE0[f]
        ELSE lbE = lbE0

\* Find filled in the unset DNSName and ID and kept the configured
\* HostedZoneId, which differs from the provider's
C16_Witness ==
    /\ lbPc = "done"
    /\ lbResult = "actual"
    /\ lbE0.DNSName = Nil
    /\ lbE0.ID = Nil
    /\ lbE0.HostedZoneId = "zone-configured"
    /\ lbE.DNSName = lbActual.DNSName
    /\ lbE.ID = lbActual.ID
    /\ lbE.HostedZoneId # lbActual.HostedZoneId

(***************************************************************************)
(* Properties of a LoadBalancer run after Find.                            *)
(***************************************************************************)
\* the fields CheckChanges requires on create, in the order it checks them,
\* and whether Expected lacks each
C11_Required == <<"Name", "SecurityGroups", "Subnets">>
C11_Missing(e) ==
    {i \in 1..3 : \/ i = 1 /\ (e.Name = Nil \/ e.Name = "")
                  \/ i = 2 /\ e.SecurityGroups = <<>>
                  \/ i = 3 /\ e.Subnets = <<>>}
C11_First(S) == CHOOSE i \in S : \A j \in S : i <= j

\* C11: on create (Actual is nil) CheckChanges fails with a required-field
\* error exactly when Expected's Name is empty, its SecurityGroups are empty
\* or its Subnets are empty, and the error names the first missing field in
\* that order; on update CheckChanges never fails. A failed validation ends
\* the run.
C11_RequiredFieldsOnCreate ==
    [][rPc = "check" =>
        /\ rErr' = IF rA = NoLB /\ C11_Missing(rE) # {}
                   THEN [kind |-> "RequiredField",
                         text |-> C11_Required[C11_First(C11_Missing(rE))]]
                   ELSE NoError
        /\ rPc' = IF rErr' = NoError THEN "render" ELSE "failed"]_vars

\* a create lacking both SecurityGroups and Subnets was refused for its
\* SecurityGroups
C11_Witness ==
    /\ rPc = "failed"
    /\ rA = NoLB
    /\ rE.Name = "api"
    /\ rE.SecurityGroups = <<>>
    /\ rE.Subnets = <<>>
    /\ rErr = [kind |-> "RequiredField", text |-> "SecurityGroups"]

\* the provider calls of the run that change the provider's state
C13_Mutations == SelectSeq(rCalls, LAMBDA c : c.op # "DescribeLoadBalancers")
C13_Ports == {l.LoadBalancerPort : l \in rE0.Listeners}
C13_CreateCarriesIDs(c) ==
    /\ c.op = "CreateLoadBalancer"
    /\ c.subnets = [i \in 1..Len(rE0.Subnets) |-> rE0.Subnets[i].ID]
    /\ c.groups = [i \in 1..Len(rE0.SecurityGroups) |-> rE0.SecurityGroups[i].ID]
C13_SuccessfulCreate == rTarget = "aws" /\ rA = NoLB /\ rPc = "done"

\* C13 as stated: a successful run with no Actual on the live target issues
\* one create call carrying Expected's subnet and security-group IDs, then
\* one listener-creation call per distinct load-balancer port of Expected's
\* listener map, then one tag call.
C13_ListenerCallPerPort ==
    C13_SuccessfulCreate =>
        LET m == C13_Mutations
            n == Cardinality(C13_Ports)
        IN  /\ Len(m) = n + 2
            /\ C13_CreateCarriesIDs(m[1])
            /\ \A i \in 2..(n + 1) : m[i].op = "CreateLoadBalancerListeners"
            /\ m[n + 2].op = "AddELBTags"

\* C13, amended: a successful run with no Actual on the live target issues
\* exactly two mutations: one create call carrying Expected's subnet IDs,
\* security-group IDs and one listener per load-balancer port of Expected's
\* listener map (its load-balancer port the key, its instance port the
\* listener's), then one tag call; it issues no listener-creation call.
C13_ListenersInCreateCall ==
    C13_SuccessfulCreate =>
        LET m == C13_Mutations
        IN  /\ Len(m) = 2
            /\ C13_CreateCarriesIDs(m[1])
            /\ Len(m[1].listeners) = Cardinality(C13_Ports)
            /\ {m[1].listeners[i] : i \in 1..Len(m[1].listeners)} =
                 {[LoadBalancerPort |-> ParseInt(l.LoadBalancerPort).n,
                   InstancePort |-> l.InstancePort,
                   Protocol |-> "TCP", InstanceProtocol |-> "TCP"] :
                      l \in rE0.Listeners}
            /\ m[2].op = "AddELBTags"
            /\ \A i \in 1..Len(rCalls) : rCalls[i].op # "CreateLoadBalancerListeners"

\* a load balancer with two subnets, one security group and two listeners
\* was created and tagged
C13_Witness ==
    /\ C13_SuccessfulCreate
    /\ Len(rE0.Subnets) = 2
    /\ Len(rE0.SecurityGroups) = 1
    /\ Cardinality(C13_Ports) = 2
    /\ Len(rCalls) = 3

\* C14: every successful LoadBalancer render applies the standard tags to
\* the object: on the live target the run ends with a successful tag call
\* carrying them, on the code-generation target every rendered document
\* carries them; and no tag call follows a failed provider call.
C14_TagsAfterEverySuccess ==
    /\ (rPc = "done" /\ rTarget = "aws") =>
            /\ rCalls # <<>>
            /\ rCalls[Len(rCalls)].op = "AddELBTags"
            /\ rCalls[Len(rCalls)].result = "ok"
            /\ rCalls[Len(rCalls)].tags = BuildTags(rE.Name)
    /\ (rPc = "done" /\ rTarget = "terraform") =>
            \A i \in 1..Len(rDocs) :
                /\ "tags" \in DOMAIN rDocs[i].e
                /\ rDocs[i].e.tags = BuildTags(rE.Name)
    /\ \A i \in 1..Len(rCalls) :
            rCalls[i].op = "AddELBTags" =>
                \A j \in 1..(i - 1) : rCalls[j].result \in {"ok", "lb"}

\* the fields of the changeset for which RenderAWS has no update call
C17_Unsupported == {f \in {"Subnets", "SecurityGroups"} : rChanges[f] # <<>>}

\* C17: an update on the live target whose changeset sets Subnets or
\* SecurityGroups ends with an error and without any provider call; it never
\* ends in success with the changed field unapplied.
C17_UnsupportedUpdateFails ==
    (rTarget = "aws" /\ rA # NoLB /\ C17_Unsupported # {}
        /\ rPc \in {"done", "failed"}) =>
            /\ rPc = "failed"
            /\ rErr.kind = "error"
            /\ rCalls = <<>>

\* the lookups of the run that found nothing or failed
C18_FailedLookups ==
    {i \in 1..Len(rCalls) :
        rCalls[i].op = "DescribeLoadBalancers" /\ rCalls[i].result \in {"nil", "error"}}

\* C18: on create, when the lookup right after a successful create call
\* finds no load balancer or fails, RenderAWS returns an error; the run has
\* issued that one create call and that one lookup and nothing else (no
\* tag call), and Expected carries the ID and the DNSName of the create.
C18_FailedLookupIsFinal ==
    C18_FailedLookups # {} =>
        /\ rPc = "failed"
        /\ rErr.kind = "error"
        /\ Len(rCalls) = 2
        /\ rCalls[1].op = "CreateLoadBalancer"
        /\ rCalls[1].result = "ok"
        /\ C18_FailedLookups = {2}
        /\ rE.ID = rCalls[1].name
        /\ rE.DNSName = "dns-" \o rCalls[1].name

\* the load balancer just created was not found: the run failed with the
\* DNSName of the create response in Expected
C18_Witness ==
    /\ rPc = "failed"
    /\ Len(rCalls) = 2
    /\ rCalls[2].op = "DescribeLoadBalancers"
    /\ rCalls[2].result = "nil"
    /\ rErr = [kind |-> "error", text |-> "Unable to find newly created ELB"]
    /\ rE0.DNSName = Nil
    /\ rE.DNSName = "dns-api-elb"

C19_Sorted(listeners) ==
    \A i, j \in 1..Len(listeners) :
        i < j => listeners[i].lb_port < listeners[j].lb_port

\* C19: the code-generation target makes no provider call, all renderings
\* of the same Expected pass the same document to RenderResource, and the
\* listeners of a document are in ascending order of load-balancer port.
C19_DeterministicDocuments ==
    rTarget = "terraform" =>
        /\ rCalls = <<>>
        /\ \A i, j \in 1..Len(rDocs) : rDocs[i] = rDocs[j]
        /\ \A i \in 1..Len(rDocs) : C19_Sorted(rDocs[i].e.listener)

\* C20: a create on the live target whose Expected has a Name and no ID does
\* not crash and does not fail for want of an ID: its first provider call
\* is the create call under Expected's Name, and once that call has
\* succeeded Expected's ID is that name.
C20_IDOptionalOnCreate ==
    (rTarget = "aws" /\ rA = NoLB /\ rE0.ID = Nil /\ rE0.Name \notin {Nil, ""}) =>
        /\ rPc # "panicked"
        /\ rErr # [kind |-> "RequiredField", text |-> "ID"]
        /\ rCalls # <<>> =>
                /\ rCalls[1].op = "CreateLoadBalancer"
                /\ rCalls[1].name = rE0.Name
                /\ rCalls[1].result = "ok" => rE.ID = rE0.Name

(***************************************************************************)
(* Properties of the ElasticIP task.                                       *)
(***************************************************************************)
\* the fields of an ElasticIP that cannot change, in the order CheckChanges
\* checks them, and whether the changeset sets each
C12_Immutable == <<"PublicIP", "Subnet", "ID">>
C12_Changed(changes) ==
    {i \in 1..3 : \/ i = 1 /\ changes.PublicIP # Nil
                  \/ i = 2 /\ changes.Subnet.set
                  \/ i = 3 /\ changes.ID # Nil}
C12_First(S) == CHOOSE i \in S : \A j \in S : i <= j

\* C12: on update (Actual is not nil) ElasticIP.CheckChanges fails with a
\* cannot-change-field error exactly when the changeset sets PublicIP, Subnet
\* or ID, and the error names the first of them in that order; on create it
\* never fails. A failed validation ends the run.
C12_ImmutableOnUpdate ==
    [][eipPc = "check" =>
        /\ eipErr' = IF eipA # NoEIP /\ C12_Changed(eipChanges') # {}
                     THEN [kind |-> "CannotChangeField",
                           text |-> C12_Immutable[C12_First(C12_Changed(eipChanges'))]]
                     ELSE NoError
        /\ eipPc' = IF eipErr' = NoError THEN "render" ELSE "failed"]_vars

\* an update whose changeset sets both Subnet and ID was refused for Subnet
C12_Witness ==
    /\ eipPc = "failed"
    /\ eipA # NoEIP
    /\ eipChanges.PublicIP = Nil
    /\ eipChanges.Subnet.set
    /\ eipChanges.ID # Nil
    /\ eipErr = [kind |-> "CannotChangeField", text |-> "Subnet"]

\* C15: over any sequence of runs of the same ElasticIP task against the live
\* target, whichever provider calls fail and whether or not the subnet has
\* an ID, at most one address is ever allocated for it.
C15_AtMostOneAddress == eipCloud.addresses <= 1

(***************************************************************************)
(* Properties of the contributions to the scope.                           *)
(***************************************************************************)
\* the items of the current listing enumerated before item idx that
\* contributed last under name n: distinct objects of the same listing
C21_Contributors(n) ==
    {j \in 1..(idx - 1) :
        /\ listing[j].Key[2] = n
        /\ \A l \in (j + 1)..(idx - 1) : listing[l].Key[2] # n}

\* C21: a list item never replaces or removes the records contributed by
\* another ingress of the same listing, also one of the same name in another
\* namespace; and a list item or an event changes no contribution under
\* another name than its object's.
C21_IndependentContributions ==
    [][/\ (pc = "Items" /\ idx <= Len(listing) /\ idx' = idx + 1) =>
            /\ \A n \in Names \ {listing[idx].Key[2]} : scope'[n] = scope[n]
            /\ \A j \in C21_Contributors(listing[idx].Key[2]) :
                   listing[j].Key # listing[idx].Key =>
                       scope'[listing[j].Key[2]] = scope[listing[j].Key[2]]
       /\ lastEvent'.Type \in {"ADDED", "MODIFIED", "DELETED"} =>
            \A n \in Names \ {lastEvent'.Key[2]} : scope'[n] = scope[n]]_vars

\* C22: an event whose type is not Added, Modified or Deleted causes no
\* Replace call and does not end the loop: after it the loop is watching or
\* on its way to the next pass.
C22_LoopSurvivesEveryEvent ==
    [][lastEvent'.Type \notin {"none", "ADDED", "MODIFIED", "DELETED"} =>
          /\ call'.op # "Replace"
          /\ scope' = scope
          /\ pc' \in {"Select", "Sleep", "List"}]_vars

====
